---- MODULE Spec2Model ----
(***************************************************************************)
(* JOBLASS: the job-search workflow (JobSearchWorkflow), the search        *)
(* session record (SearchSession / SearchSessionRepository), the posting   *)
(* store (JobRepository), the scraper's extraction loop                    *)
(* (GlassdoorScraper.search_jobs) and the control flags (ScraperControl).  *)
(*                                                                         *)
(* One workflow object runs one call at a time (pc); a second thread may   *)
(* call stop/pause/resume/reset between any two steps.  A call is cut into *)
(* steps at its suspension points (control.wait_if_paused /                *)
(* control.check_should_stop), everything between two of them is one step. *)
(*                                                                         *)
(* Optional ints (ids) use 0 for None, as the code tests them by truth     *)
(* value; optional strings use the string "None".                          *)
(***************************************************************************)
EXTENDS Integers, Sequences, FiniteSets, TLC

\* ---------------------------------------------------------------- bounds
MaxSessions == 1
MaxFound == 2

\* ------------------------------------------------------------- constants
\* MockGlassdoorScraper.fill_search_form returns 100
MockJobsFound == 100

NoneStr == "None"

CancelMsg == "User stopped the scraper"
UnpackMsg == "not enough/too many values to unpack (expected 2)"
NoLenMsg == "object of type 'ScrapedJobData' has no len()"
FilterMsg == "filter error"
NoFiltersMsg == "Filters not initialized. Call fill_search_form() first."
DropdownMsg == "dropdown error"
NoCountMsg == "'MockGlassdoorScraper' object has no attribute 'get_jobs_found_count'"
ScraperMsg == "Network timeout after 30 seconds"

\* ------------------------------------------------------------ the site
\* ScrapedJobData candidates the site can show (title, location and source are
\* the same for all and left out): the same external id under two URLs, the
\* company name written in two letter cases.
J1 == [company |-> "google", url |-> "u1", job_external_id |-> "GD-1"]
J2 == [company |-> "Google", url |-> "u2", job_external_id |-> "GD-1"]
Catalogue == {J1, J2}

CatalogueSeq == <<J1, J2>>

SeqsUpTo(S, n) == UNION {[1..k -> S] : k \in 0..n}
\* what a test double may be told to return
Listings == SeqsUpTo(Catalogue, MaxFound)
\* the result list the site shows for a query with n results
SiteListing(n) == [i \in 1..n |-> CatalogueSeq[((i - 1) % Len(CatalogueSeq)) + 1]]

Min(a, b) == IF a < b THEN a ELSE b

\* str.lower() on the names of the catalogue
Lower(name) == IF name = "Google" THEN "google" ELSE name

VARIABLES
    stop_flag, pause_flag,
    sessions, jobs, companies,
    current_session, filters_ready, scraper,
    listing, loaded,
    pc, frame, outcome

vars == <<stop_flag, pause_flag, sessions, jobs, companies, current_session,
          filters_ready, scraper, listing, loaded, pc, frame, outcome>>

control_vars == <<stop_flag, pause_flag>>
db_vars == <<sessions, jobs, companies>>
site_vars == <<listing, loaded>>

\* ------------------------------------------------------ ScraperControl
\* a wait that returns at once
wait_never == TRUE

\* wait_if_paused returns: not paused, or stopped
wait_if_paused == ~(pause_flag /\ ~stop_flag)

stop ==
    /\ stop_flag' = TRUE
    /\ UNCHANGED <<pause_flag, db_vars, current_session, filters_ready, scraper, site_vars, pc, frame, outcome>>

\* a pause that also withdraws the stop request
pause_clearing_stop ==
    /\ pause_flag' = TRUE
    /\ stop_flag' = FALSE
    /\ UNCHANGED <<db_vars, current_session, filters_ready, scraper, site_vars, pc, frame, outcome>>

pause ==
    /\ pause_flag' = TRUE
    /\ UNCHANGED <<stop_flag, db_vars, current_session, filters_ready, scraper, site_vars, pc, frame, outcome>>

resume ==
    /\ pause_flag' = FALSE
    /\ UNCHANGED <<stop_flag, db_vars, current_session, filters_ready, scraper, site_vars, pc, frame, outcome>>

reset ==
    /\ stop_flag' = FALSE
    /\ pause_flag' = FALSE
    /\ UNCHANGED <<db_vars, current_session, filters_ready, scraper, site_vars, pc, frame, outcome>>

\* ------------------------------------------------------- SearchSession
NoSession ==
    [id |-> 0, status |-> "unset", jobs_found |-> 0, jobs_scraped |-> 0,
     jobs_saved |-> 0, jobs_skipped |-> 0, error_message |-> NoneStr, refined |-> FALSE]

NewSession ==
    [id |-> 0, status |-> "in_progress", jobs_found |-> 0, jobs_scraped |-> 0,
     jobs_saved |-> 0, jobs_skipped |-> 0, error_message |-> NoneStr, refined |-> FALSE]

mark_completed(s, jobs_scraped, jobs_saved, jobs_skipped) ==
    [s EXCEPT !.status = "completed", !.jobs_scraped = jobs_scraped,
              !.jobs_saved = jobs_saved, !.jobs_skipped = jobs_skipped]

\* a mark_failed that also forgets the discovered count
mark_failed_clearing(s, error_message) ==
    [s EXCEPT !.status = "failed", !.error_message = error_message, !.jobs_found = 0]

mark_failed(s, error_message) ==
    [s EXCEPT !.status = "failed", !.error_message = error_message]

\* SearchSessionRepository.insert: the row as stored; the new id is its index
SessionRow(s) ==
    [status |-> s.status, jobs_found |-> s.jobs_found, jobs_scraped |-> s.jobs_scraped,
     jobs_saved |-> s.jobs_saved, jobs_skipped |-> s.jobs_skipped,
     error_message |-> s.error_message, refined |-> s.refined]

\* SearchSessionRepository.update: every column but search_criteria
SessionUpdate(tbl, s) ==
    IF s.id = 0 THEN tbl
    ELSE [tbl EXCEPT ![s.id] =
            [@ EXCEPT !.status = s.status, !.jobs_found = s.jobs_found,
                      !.jobs_scraped = s.jobs_scraped, !.jobs_saved = s.jobs_saved,
                      !.jobs_skipped = s.jobs_skipped, !.error_message = s.error_message]]

\* --------------------------------------------------------------- frames
CompanyNames == {j.company : j \in Catalogue}

\* company_map of save_companies_to_db, with 0 for a name that is not a key
EmptyCompanyMap == [n \in CompanyNames |-> 0]

NoStats == [jobs_found |-> 0, jobs_scraped |-> 0, jobs_saved |-> 0, jobs_skipped |-> 0, session_id |-> 0]

IdleFrame ==
    [in_run |-> FALSE, stats |-> NoStats, has_cap |-> FALSE, max_jobs |-> 0, skip_until |-> 0,
     limit |-> 0, idx |-> 0, elem_bound |-> FALSE,
     scraped_jobs |-> <<>>, scraped_companies |-> <<>>,
     company_map |-> EmptyCompanyMap, saved |-> 0, skipped |-> 0, failed |-> 0, k |-> 1,
     stop_seen |-> "no", extracted |-> 0, known |-> 0, companies_done |-> 0]

\* what the caller of the last call got; stop_seen (where the call observed a
\* stop request), extracted (items search_jobs extracted) and known (candidates
\* handed to save_jobs_to_db whose identity was stored already) are the call's
\* history
NoOutcome ==
    [op |-> "none", kind |-> "none", stats |-> NoStats, stop_seen |-> "no",
     extracted |-> 0, known |-> 0, session_id |-> 0]

Returned(op, st, f, sid) ==
    [op |-> op, kind |-> "returned", stats |-> st, stop_seen |-> f.stop_seen,
     extracted |-> f.extracted, known |-> f.known, session_id |-> sid]

Raised(op, f, sid) ==
    [op |-> op, kind |-> "raised", stats |-> NoStats, stop_seen |-> f.stop_seen,
     extracted |-> f.extracted, known |-> f.known, session_id |-> sid]

Init ==
    /\ stop_flag = FALSE
    /\ pause_flag = FALSE
    /\ sessions = <<>>
    /\ jobs = <<>>
    /\ companies = <<>>
    /\ current_session = NoSession
    /\ filters_ready = FALSE
    /\ scraper \in {"GlassdoorScraper", "MockGlassdoorScraper"}
    /\ listing = <<>>
    /\ loaded = 0
    /\ pc = "idle"
    /\ frame = IdleFrame
    /\ outcome = NoOutcome

\* ------------------------------------------- JobSearchWorkflow.start_search
OpName(in_run) == IF in_run THEN "run" ELSE "start_search"

\* start_search up to the first suspension point: the session is created and
\* inserted, then fill_search_form navigates to the home page.
StartSearch(in_run) ==
    /\ pc = "idle"
    /\ Len(sessions) < MaxSessions
    /\ \E inserted \in BOOLEAN, nav_ok \in BOOLEAN :
        /\ (scraper = "MockGlassdoorScraper") => nav_ok
        /\ IF ~inserted
           THEN /\ current_session' = NewSession
                /\ outcome' = Returned(OpName(in_run), NoStats, IdleFrame, 0)
                /\ UNCHANGED <<sessions, pc, frame>>
           ELSE /\ sessions' = Append(sessions, SessionRow(NewSession))
                /\ current_session' = [NewSession EXCEPT !.id = Len(sessions) + 1]
                /\ IF nav_ok
                   THEN /\ pc' = "fill_form"
                        /\ frame' = [IdleFrame EXCEPT !.in_run = in_run]
                        /\ outcome' = NoOutcome
                   ELSE /\ outcome' = Raised(OpName(in_run), IdleFrame, Len(sessions) + 1)
                        /\ UNCHANGED <<pc, frame>>
    /\ UNCHANGED <<control_vars, jobs, companies, filters_ready, scraper, site_vars>>

\* start_search_record without the early completion of an empty search
start_search_record_open(s, jobs_found) ==
    [s EXCEPT !.jobs_found = jobs_found]

\* what start_search leaves in the session once the count is known
start_search_record(s, jobs_found) ==
    IF jobs_found = 0
    THEN mark_completed([s EXCEPT !.jobs_found = 0], 0, 0, 0)
    ELSE [s EXCEPT !.jobs_found = jobs_found]

\* the rest of start_search once fill_search_form has returned jobs_found and
\* ExtraFilters has been built (filters_ok) or has raised
StartSearchTail(jobs_found, filters_ok, seen) ==
    LET f == [frame EXCEPT !.stop_seen = seen]
        s == start_search_record(current_session, jobs_found)
        st == [NoStats EXCEPT !.jobs_found = jobs_found, !.session_id = current_session.id]
    IN  IF jobs_found # 0 /\ ~filters_ok
        THEN /\ outcome' = Raised(OpName(frame.in_run), f, current_session.id)
             /\ pc' = "idle"
             /\ frame' = IdleFrame
             /\ UNCHANGED <<sessions, current_session, filters_ready>>
        ELSE /\ current_session' = s
             /\ sessions' = SessionUpdate(sessions, s)
             /\ filters_ready' = (filters_ready \/ jobs_found # 0)
             /\ IF frame.in_run /\ jobs_found # 0
                THEN /\ pc' = "phase2"
                     /\ frame' = f
                     /\ UNCHANGED outcome
                ELSE /\ pc' = "idle"
                     /\ frame' = IdleFrame
                     /\ outcome' = Returned(OpName(frame.in_run), st, f, current_session.id)

\* GlassdoorScraper.fill_search_form, then the rest of start_search
FillSearchFormGlassdoor ==
    /\ pc = "fill_form"
    /\ scraper = "GlassdoorScraper"
    /\ wait_if_paused
    /\ IF stop_flag
       THEN \* InterruptedError is caught inside fill_search_form: return 0
            /\ listing' = <<>>
            /\ loaded' = 0
            /\ StartSearchTail(0, TRUE, "form")
       ELSE \/ \* no suggestion, or any other exception: return 0
               /\ listing' = <<>>
               /\ loaded' = 0
               /\ StartSearchTail(0, TRUE, "no")
            \/ \E found \in 1..MaxFound, n \in 0..MaxFound, filters_ok \in BOOLEAN :
               /\ n <= found
               /\ listing' = SiteListing(found)
               /\ loaded' = n
               /\ StartSearchTail(found, filters_ok, "no")
    /\ UNCHANGED <<control_vars, jobs, companies, scraper>>

\* MockGlassdoorScraper / NoJobsScraper.fill_search_form: no control check
FillSearchFormMock ==
    /\ pc = "fill_form"
    /\ scraper = "MockGlassdoorScraper"
    /\ \E n \in {0, MockJobsFound} : StartSearchTail(n, TRUE, "no")
    /\ UNCHANGED <<control_vars, jobs, companies, scraper, site_vars>>

\* ---------------------------------------- JobSearchWorkflow.complete_search
CallName(f) == IF f.in_run THEN "run" ELSE "complete_search"

\* the except branch of complete_search: mark_failed, update, return stats
Fail(s, msg, f) ==
    LET t == mark_failed(s, msg)
    IN  /\ current_session' = t
        /\ sessions' = SessionUpdate(sessions, t)
        /\ outcome' = Returned(CallName(f), f.stats, f, s.id)
        /\ pc' = "idle"
        /\ frame' = IdleFrame

\* the end of the try block: stats from save_jobs_to_db, mark_completed, update
Finish(s, f) ==
    LET st == [f.stats EXCEPT !.jobs_saved = f.saved, !.jobs_skipped = f.skipped]
        t == mark_completed(s, st.jobs_scraped, st.jobs_saved, st.jobs_skipped)
    IN  /\ current_session' = t
        /\ sessions' = SessionUpdate(sessions, t)
        /\ outcome' = Returned(CallName(f), st, [f EXCEPT !.stats = st], s.id)
        /\ pc' = "idle"
        /\ frame' = IdleFrame

\* complete_search with save_jobs_to_db called ahead of save_companies_to_db
AfterScrapeJobsFirst(s, f) ==
    IF Len(f.scraped_jobs) > 0
    THEN /\ pc' = "save_jobs"
         /\ frame' = [f EXCEPT !.k = 1]
         /\ UNCHANGED <<current_session, sessions, outcome>>
    ELSE Finish(s, f)

\* where the workflow stands once scrape_jobs has returned: the two save
\* loops run only over non-empty lists
AfterScrape(s, f) ==
    IF Len(f.scraped_companies) > 0
    THEN /\ pc' = "save_companies"
         /\ frame' = [f EXCEPT !.k = 1]
         /\ UNCHANGED <<current_session, sessions, outcome>>
    ELSE IF Len(f.scraped_jobs) > 0
    THEN /\ pc' = "save_jobs"
         /\ frame' = [f EXCEPT !.k = 1]
         /\ UNCHANGED <<current_session, sessions, outcome>>
    ELSE Finish(s, f)

\* complete_search from its entry to the call of scrape_jobs
CompleteSearch(adv, has_cap, max_jobs, skip_until) ==
    /\ pc \in {"idle", "phase2"}
    /\ LET s == current_session
           f == [frame EXCEPT !.has_cap = (has_cap /\ scraper = "GlassdoorScraper"),
                              !.max_jobs = (IF scraper = "GlassdoorScraper" THEN max_jobs ELSE 0),
                              !.skip_until = (IF scraper = "GlassdoorScraper" THEN skip_until ELSE 0),
                              !.stats = [NoStats EXCEPT !.jobs_found = s.jobs_found,
                                                        !.session_id = s.id]]
       IN  IF s.status = "unset" \/ s.id = 0
           THEN \* RuntimeError: no active session
                /\ outcome' = Raised(CallName(f), f, 0)
                /\ UNCHANGED <<current_session, sessions, pc, frame, site_vars>>
           ELSE IF s.jobs_found = 0
           THEN /\ outcome' = Returned(CallName(f), f.stats, f, s.id)
                /\ pc' = "idle"
                /\ frame' = IdleFrame
                /\ UNCHANGED <<current_session, sessions, site_vars>>
           ELSE IF adv
           THEN LET s1 == [s EXCEPT !.refined = TRUE]
                IN  IF ~filters_ready
                    THEN Fail(s1, NoFiltersMsg, f) /\ UNCHANGED site_vars
                    ELSE IF scraper = "MockGlassdoorScraper"
                    THEN \* the test double has no get_jobs_found_count
                         Fail(s1, NoCountMsg, f) /\ UNCHANGED site_vars
                    ELSE IF stop_flag
                    THEN \* human_click raises InterruptedError, unless something
                         \* else fails first
                         /\ \/ Fail(s1, CancelMsg, [f EXCEPT !.stop_seen = "filters"])
                            \/ Fail(s1, FilterMsg, f)
                         /\ UNCHANGED site_vars
                    ELSE \/ Fail(s1, FilterMsg, f) /\ UNCHANGED site_vars
                         \/ \E n \in 0..Len(listing) :
                              LET s2 == [s1 EXCEPT !.jobs_found = n]
                              IN  /\ current_session' = s2
                                  /\ sessions' = SessionUpdate(sessions, s2)
                                  /\ pc' = "scrape"
                                  /\ frame' = [f EXCEPT !.stats.jobs_found = n]
                                  /\ listing' = SubSeq(listing, 1, n)
                                  /\ loaded' = Min(loaded, n)
                                  /\ outcome' = NoOutcome
           ELSE \* no filters: close the dropdown if there is a filters object
                IF filters_ready /\ scraper = "GlassdoorScraper"
                THEN \/ /\ stop_flag
                        /\ Fail(s, CancelMsg, [f EXCEPT !.stop_seen = "filters"])
                        /\ UNCHANGED site_vars
                     \/ Fail(s, DropdownMsg, f) /\ UNCHANGED site_vars
                     \/ /\ pc' = "scrape"
                        /\ frame' = f
                        /\ outcome' = NoOutcome
                        /\ UNCHANGED <<current_session, sessions, site_vars>>
                ELSE /\ pc' = "scrape"
                     /\ frame' = f
                     /\ outcome' = NoOutcome
                     /\ UNCHANGED <<current_session, sessions, site_vars>>
    /\ UNCHANGED <<control_vars, jobs, companies, filters_ready, scraper>>

\* ------------------------------------------ JobSearchWorkflow.scrape_jobs
CompaniesOf(jl) ==
    [i \in 1..Len(jl) |->
        [company_name |-> jl[i].company, profile_url |-> "None",
         overview |-> [size |-> "None", industry |-> "None"], reviews_summary |-> "None"]]

\* scrape_jobs over MockGlassdoorScraper.search_jobs, which returns the pair
\* (jobs_to_return, companies_to_return), or FailingScraper's, which raises
ScrapeMock ==
    /\ pc = "scrape"
    /\ scraper = "MockGlassdoorScraper"
    /\ IF frame.stats.jobs_found = 0
       THEN AfterScrape(current_session, frame)
       ELSE \/ Fail(current_session, ScraperMsg, frame)
            \/ \E jl \in Listings, with_companies \in BOOLEAN :
                 LET cl == IF with_companies /\ Len(jl) > 0 THEN CompaniesOf(jl) ELSE <<>>
                 IN  AfterScrape(current_session,
                                 [frame EXCEPT !.scraped_jobs = jl, !.scraped_companies = cl,
                                               !.extracted = Len(jl),
                                               !.stats.jobs_scraped = Len(jl)])
    /\ UNCHANGED <<control_vars, jobs, companies, filters_ready, scraper, site_vars>>

\* scrape_jobs unpacks what GlassdoorScraper.search_jobs returned, a list of
\* ScrapedJobData, into (scraped_jobs, scraped_companies): ValueError unless
\* the list has two items, and then len() of a ScrapedJobData is a TypeError
SearchJobsReturn(s, f) ==
    Fail(s, IF Len(f.scraped_jobs) = 2 THEN NoLenMsg ELSE UnpackMsg,
         [f EXCEPT !.scraped_jobs = <<>>])

\* a loop that starts over at the offset when the index reaches the bound
AfterIterationRestart(s, f) ==
    /\ pc' = "extract"
    /\ frame' = IF f.idx < f.limit
                THEN f
                ELSE [f EXCEPT !.idx = f.skip_until, !.scraped_jobs = <<>>, !.extracted = 0]
    /\ UNCHANGED <<current_session, sessions, outcome>>

\* the loop condition of search_jobs
AfterIteration(s, f) ==
    IF f.idx < f.limit
    THEN /\ pc' = "extract"
         /\ frame' = f
         /\ UNCHANGED <<current_session, sessions, outcome>>
    ELSE SearchJobsReturn(s, f)

\* scrape_jobs over GlassdoorScraper.search_jobs, up to the loop
ScrapeGlassdoor ==
    /\ pc = "scrape"
    /\ scraper = "GlassdoorScraper"
    /\ IF frame.stats.jobs_found = 0
       THEN AfterScrape(current_session, frame)
       ELSE LET limit == IF frame.has_cap
                         THEN Min(frame.stats.jobs_found, frame.max_jobs)
                         ELSE frame.stats.jobs_found
                f == [frame EXCEPT !.limit = limit, !.idx = frame.skip_until]
            IN  IF limit = 0
                THEN SearchJobsReturn(current_session, f)
                ELSE \/ AfterIteration(current_session, f)
                     \/ SearchJobsReturn(current_session, f)   \* find_elements raised
    /\ UNCHANGED <<control_vars, jobs, companies, filters_ready, scraper, site_vars>>

\* the except-Exception branch of the loop body: highlight(job_element) is an
\* UnboundLocalError when no iteration has bound job_element yet, which ends
\* search_jobs through its outer handler
IterationError(s, f) ==
    IF f.elem_bound
    THEN AfterIteration(s, [f EXCEPT !.idx = f.idx + 1])
    ELSE SearchJobsReturn(s, f)

\* one iteration of the while loop of search_jobs
ExtractStep ==
    /\ pc = "extract"
    /\ wait_if_paused
    /\ LET s == current_session
           f == frame
       IN  IF stop_flag
           THEN \* InterruptedError: break
                /\ SearchJobsReturn(s, [f EXCEPT !.stop_seen = "extract"])
                /\ UNCHANGED loaded
           ELSE IF f.idx = loaded
           THEN \/ \* no load-more button
                   IterationError(s, f) /\ UNCHANGED loaded
                \/ \* the button is there: more listings are loaded if it is
                   \* displayed, and the loop is left
                   \E n \in loaded..Len(listing) :
                      /\ loaded' = n
                      /\ SearchJobsReturn(s, f)
           ELSE IF f.idx > loaded
           THEN \* jobs[current_job_index]: IndexError
                IterationError(s, f) /\ UNCHANGED loaded
           ELSE /\ UNCHANGED loaded
                /\ \/ \* extracted and validated
                      AfterIteration(s, [f EXCEPT !.elem_bound = TRUE,
                                                  !.scraped_jobs = Append(@, listing[f.idx + 1]),
                                                  !.extracted = @ + 1,
                                                  !.idx = @ + 1])
                   \/ \* extract_and_validate_job returned None
                      AfterIteration(s, [f EXCEPT !.elem_bound = TRUE, !.idx = @ + 1])
                   \/ \* an element or click error
                      IterationError(s, [f EXCEPT !.elem_bound = TRUE])
    /\ UNCHANGED <<control_vars, jobs, companies, filters_ready, scraper, listing>>

\* ------------------------------------------------------ the posting store
\* ScrapedJobData.to_job_model
to_job_model(j, session_id, company_id) ==
    [company |-> j.company, url |-> j.url,
     job_external_id |-> j.job_external_id,
     session_id |-> session_id, company_id |-> company_id]

\* Job.generate_hash, the identity hash: source and external id when the
\* posting has one, else the normalised title, company, location and source
\* (the same for every candidate of the catalogue but the company)
generate_hash(j) ==
    IF j.job_external_id # NoneStr
    THEN <<"glassdoor", j.job_external_id>>
    ELSE <<"glassdoor", Lower(j.company)>>

HashStored(tbl, j) == \E i \in 1..Len(tbl) : generate_hash(tbl[i]) = generate_hash(j)

\* the unique column of the jobs table (Job.url, unique=True)
UrlStored(tbl, url) == \E i \in 1..Len(tbl) : tbl[i].url = url

\* the columns the INSERT of JobRepository.insert names: company_id is not one
JobRow(job) ==
    [company |-> job.company, url |-> job.url,
     job_external_id |-> job.job_external_id, session_id |-> job.session_id]

\* JobRepository.insert without a database error: the INSERT, and None (0)
\* for the IntegrityError of a URL that is already stored
JobRepository_insert(tbl, job) ==
    IF UrlStored(tbl, job.url)
    THEN [id |-> 0, table |-> tbl]
    ELSE [id |-> Len(tbl) + 1, table |-> Append(tbl, JobRow(job))]

\* ------------------------------------------------- the organization store
\* get_by_name that compares the names as they are written
CompanyIdByExactName(tbl, name) ==
    IF \E i \in 1..Len(tbl) : tbl[i].name = name
    THEN CHOOSE i \in 1..Len(tbl) : tbl[i].name = name
    ELSE 0

\* CompanyRepository.get_by_name: case-insensitive
CompanyIdByName(tbl, name) ==
    IF \E i \in 1..Len(tbl) : Lower(tbl[i].name) = Lower(name)
    THEN CHOOSE i \in 1..Len(tbl) : Lower(tbl[i].name) = Lower(name)
    ELSE 0

\* ScrapedCompanyFromJobPosting.to_company_model
to_company_model(c) ==
    [name |-> c.company_name, page_source |-> "job_posting", profile_url |-> c.profile_url,
     overview |-> c.overview, reviews_summary |-> c.reviews_summary, evaluations |-> NoneStr]

\* ScrapedCompanyFromProfile.to_company_model
to_company_model_profile(c) ==
    [name |-> c.company_name, page_source |-> "company_profile", profile_url |-> c.profile_url,
     overview |-> c.overview, reviews_summary |-> NoneStr, evaluations |-> c.evaluations]

\* a if it is there, else b
Prefer(a, b) == IF a # NoneStr THEN a ELSE b

\* MergeUpgrade that keeps the provenance of the stored record
MergeUpgradeSameSource(old, new) ==
    [old EXCEPT !.overview = [k \in DOMAIN old.overview |-> Prefer(new.overview[k], old.overview[k])],
                !.evaluations = Prefer(new.evaluations, old.evaluations),
                !.profile_url = Prefer(old.profile_url, new.profile_url)]

\* a profile record onto a posting record: the incoming overview and
\* evaluations are copied, what the record had and the profile lacks is kept
MergeUpgrade(old, new) ==
    [old EXCEPT !.page_source = "merged",
                !.overview = [k \in DOMAIN old.overview |-> Prefer(new.overview[k], old.overview[k])],
                !.evaluations = Prefer(new.evaluations, old.evaluations),
                !.profile_url = Prefer(old.profile_url, new.profile_url)]

\* FillAbsent where the incoming posting record wins
FillOverwrite(old, new) ==
    [old EXCEPT !.overview = [k \in DOMAIN old.overview |-> Prefer(new.overview[k], old.overview[k])],
                !.reviews_summary = Prefer(new.reviews_summary, old.reviews_summary),
                !.profile_url = Prefer(new.profile_url, old.profile_url)]

\* a posting record onto a profile or merged record: only absent fields are
\* filled, the provenance stays
FillAbsent(old, new) ==
    [old EXCEPT !.overview = [k \in DOMAIN old.overview |-> Prefer(old.overview[k], new.overview[k])],
                !.reviews_summary = Prefer(old.reviews_summary, new.reviews_summary),
                !.evaluations = Prefer(old.evaluations, new.evaluations),
                !.profile_url = Prefer(old.profile_url, new.profile_url)]

\* the decision on a record found by name that rewrites it in every case
ResolveAlwaysMerge(tbl, id, company) ==
    [id |-> id, table |-> [tbl EXCEPT ![id] = MergeUpgrade(tbl[id], company)],
     decision |-> "merge"]

\* the decision of the merge resolver on a record found by name
Resolve(tbl, id, company) ==
    LET old == tbl[id]
    IN  IF old.page_source = "job_posting" /\ company.page_source = "company_profile"
        THEN [id |-> id, table |-> [tbl EXCEPT ![id] = MergeUpgrade(old, company)],
              decision |-> "merge"]
        ELSE IF old.page_source \in {"company_profile", "merged"}
                /\ company.page_source = "job_posting"
        THEN [id |-> id, table |-> [tbl EXCEPT ![id] = FillAbsent(old, company)],
              decision |-> "fill"]
        ELSE [id |-> id, table |-> tbl, decision |-> "ignore"]

\* CompanyRepository.upsert of a record without a database error
CompanyRepository_upsert(tbl, company) ==
    IF CompanyIdByName(tbl, company.name) # 0
    THEN Resolve(tbl, CompanyIdByName(tbl, company.name), company)
    ELSE [id |-> Len(tbl) + 1, table |-> Append(tbl, company), decision |-> "insert"]

\* -------------------------------- JobSearchWorkflow.save_companies_to_db
\* an iteration in which an upsert that fails ends the call
SaveCompanyStepAborting ==
    /\ pc = "save_companies"
    /\ wait_if_paused
    /\ LET s == current_session
           f == frame
           c == f.scraped_companies[f.k]
           last == (f.k = Len(f.scraped_companies))
           r == CompanyRepository_upsert(companies, to_company_model(c))
       IN  IF stop_flag
           THEN /\ Fail(s, CancelMsg, [f EXCEPT !.stop_seen = "company"])
                /\ UNCHANGED companies
           ELSE \/ /\ Fail(s, ScraperMsg, f)
                   /\ UNCHANGED companies
                \/ /\ companies' = r.table
                   /\ pc' = (IF last THEN "save_jobs" ELSE "save_companies")
                   /\ frame' = [f EXCEPT !.company_map[c.company_name] = r.id,
                                         !.k = IF last THEN 1 ELSE f.k + 1,
                                         !.companies_done = @ + 1]
                   /\ UNCHANGED <<current_session, sessions, outcome>>
    /\ UNCHANGED <<control_vars, jobs, filters_ready, scraper, site_vars>>

\* one iteration of the loop; after the last one save_jobs_to_db starts
SaveCompanyStep ==
    /\ pc = "save_companies"
    /\ wait_if_paused
    /\ LET s == current_session
           f == frame
           c == f.scraped_companies[f.k]
           last == (f.k = Len(f.scraped_companies))
           advance(g) == /\ pc' = (IF last THEN "save_jobs" ELSE "save_companies")
                         /\ frame' = [g EXCEPT !.k = IF last THEN 1 ELSE f.k + 1,
                                               !.companies_done = @ + 1]
                         /\ UNCHANGED <<current_session, sessions, outcome>>
       IN  IF stop_flag
           THEN \* InterruptedError leaves save_companies_to_db
                /\ Fail(s, CancelMsg, [f EXCEPT !.stop_seen = "company"])
                /\ UNCHANGED companies
           ELSE \/ \* upsert returned None or raised: logged, not in the map
                   /\ advance(f)
                   /\ UNCHANGED companies
                \/ LET r == CompanyRepository_upsert(companies, to_company_model(c))
                   IN  /\ companies' = r.table
                       /\ advance([f EXCEPT !.company_map[c.company_name] = r.id])
    /\ UNCHANGED <<control_vars, jobs, filters_ready, scraper, site_vars>>

\* ------------------------------------- JobSearchWorkflow.save_jobs_to_db
\* one iteration of the loop; after the last one complete_search finishes
SaveJobStep ==
    /\ pc = "save_jobs"
    /\ wait_if_paused
    /\ LET s == current_session
           f == frame
           j == f.scraped_jobs[f.k]
           last == (f.k = Len(f.scraped_jobs))
           h == [f EXCEPT !.known = IF HashStored(jobs, j) THEN @ + 1 ELSE @]
           advance(g) == IF last
                         THEN Finish(s, g)
                         ELSE /\ pc' = "save_jobs"
                              /\ frame' = [g EXCEPT !.k = f.k + 1]
                              /\ UNCHANGED <<current_session, sessions, outcome>>
       IN  IF stop_flag
           THEN /\ Fail(s, CancelMsg, [f EXCEPT !.stop_seen = "job"])
                /\ UNCHANGED jobs
           ELSE \/ \* a database error other than a duplicate: counted as failed
                   /\ advance([h EXCEPT !.failed = @ + 1])
                   /\ UNCHANGED jobs
                \/ LET r == JobRepository_insert(jobs,
                                to_job_model(j, s.id, f.company_map[j.company]))
                   IN  /\ jobs' = r.table
                       /\ IF r.id # 0
                          THEN advance([h EXCEPT !.saved = @ + 1])
                          ELSE advance([h EXCEPT !.skipped = @ + 1])
    /\ UNCHANGED <<control_vars, companies, filters_ready, scraper, site_vars>>

Next ==
    \/ stop \/ pause \/ resume \/ reset
    \/ \E in_run \in BOOLEAN : StartSearch(in_run)
    \/ FillSearchFormGlassdoor
    \/ FillSearchFormMock
    \/ \E adv \in BOOLEAN, has_cap \in BOOLEAN, max_jobs \in 0..MaxFound, skip_until \in 0..MaxFound :
         /\ has_cap \/ max_jobs = 0
         /\ CompleteSearch(adv, has_cap, max_jobs, skip_until)
    \/ ScrapeMock
    \/ ScrapeGlassdoor
    \/ ExtractStep
    \/ SaveCompanyStep
    \/ SaveJobStep

Spec == Init /\ [][Next]_vars

\* ===================================================== properties
Terminal(status) == status \in {"completed", "failed"}

Counters(s) == <<s.jobs_found, s.jobs_scraped, s.jobs_saved, s.jobs_skipped>>

\* the persisted record of the session the last call worked on
LastRow == sessions[outcome.session_id]

CallEnded == pc = "idle" /\ outcome.session_id # 0

\* C1: once a session is completed or failed, no step changes its jobs_found,
\* jobs_scraped, jobs_saved or jobs_skipped, neither in the persisted record
\* nor in the object the workflow holds.
C1_CountersFrozen ==
    [][/\ \A i \in 1..Len(sessions) :
            Terminal(sessions[i].status) => Counters(sessions'[i]) = Counters(sessions[i])
       /\ (Terminal(current_session.status) /\ current_session'.id = current_session.id)
            => Counters(current_session') = Counters(current_session)]_vars

\* C2: a session that is completed or failed keeps that status for ever: it
\* never goes from completed to failed, from failed to completed, or back to
\* in_progress.
C2_OneTerminalTransition ==
    [][/\ \A i \in 1..Len(sessions) :
            Terminal(sessions[i].status) => sessions'[i].status = sessions[i].status
       /\ (Terminal(current_session.status) /\ current_session'.id = current_session.id)
            => current_session'.status = current_session.status]_vars

\* C3: a call that ended with an exception after its session was created
\* leaves the session persisted as failed, with an error message; the session
\* is not left in_progress.
C3_ExceptionFailsSession ==
    (CallEnded /\ outcome.kind = "raised")
        => (LastRow.status = "failed" /\ LastRow.error_message # NoneStr)

\* C4: run() and complete_search() on a session that exists never end with an
\* exception: the caller gets statistics that carry the session id.
C4_AlwaysReturnsStats ==
    (CallEnded /\ outcome.op \in {"run", "complete_search"})
        => (outcome.kind = "returned" /\ outcome.stats.session_id = outcome.session_id)

ZeroCompleted(s) ==
    /\ s.status = "completed"
    /\ Counters(s) = <<0, 0, 0, 0>>
    /\ s.error_message = NoneStr

\* C5: when the base search finds nothing, start_search leaves the session
\* completed with the four counters at zero and no error message, in memory
\* and persisted, and the call is over; from then on no step of a call on
\* that session extracts or saves anything or changes the session.
C5_ZeroItems ==
    [][/\ (pc = "fill_form" /\ outcome'.kind = "returned" /\ outcome'.stats.jobs_found = 0)
            => /\ pc' = "idle"
               /\ ZeroCompleted(current_session')
               /\ current_session'.id # 0
               /\ ZeroCompleted(sessions'[current_session'.id])
               /\ jobs' = jobs /\ companies' = companies
       /\ (/\ pc = "idle" /\ current_session.id # 0
           /\ ZeroCompleted(current_session)
           /\ current_session'.id = current_session.id)
            => /\ pc' = "idle"
               /\ current_session' = current_session
               /\ sessions' = sessions
               /\ jobs' = jobs /\ companies' = companies]_vars

\* complete_search was called on a session whose base search found nothing
\* (no filters object was ever built) and returned at once
C5_Witness ==
    /\ CallEnded
    /\ ~filters_ready
    /\ outcome.op = "complete_search" /\ outcome.kind = "returned"
    /\ outcome.stats.jobs_found = 0
    /\ ZeroCompleted(LastRow)
    /\ jobs = <<>>

\* C6: a call that observed a stop request at one of its suspension points
\* ends with its session failed and the cancellation message as error message
\* (so never completed).
C6_StopFailsWithCancelMsg ==
    (CallEnded /\ outcome.stop_seen # "no")
        => (LastRow.status = "failed" /\ LastRow.error_message = CancelMsg)

\* C7: when the stop request is observed in the extraction loop, the
\* statistics returned count as scraped the items extracted before it, and no
\* item is saved.
C7_StatsBeforeStop ==
    (CallEnded /\ outcome.kind = "returned" /\ outcome.stop_seen = "extract")
        => /\ outcome.stats.jobs_scraped = outcome.extracted
           /\ outcome.stats.jobs_saved = 0

\* C8: a call that left its session completed returns jobs_scraped =
\* jobs_saved + jobs_skipped, and jobs_skipped is the number of candidates
\* whose identity was already stored when they were to be saved.
C8_SkippedAreDuplicates ==
    (CallEnded /\ outcome.kind = "returned" /\ LastRow.status = "completed")
        => /\ outcome.stats.jobs_scraped = outcome.stats.jobs_saved + outcome.stats.jobs_skipped
           /\ outcome.stats.jobs_skipped = outcome.known

\* C9: no two stored postings have the same identity hash: there are as many
\* stored postings as distinct identity hashes among them.
C9_OnePostingPerIdentity ==
    Cardinality({generate_hash(jobs[i]) : i \in 1..Len(jobs)}) = Len(jobs)

\* C10: no step changes a stored posting, and the step that saves a candidate
\* whose identity is already stored stores nothing.
C10_StoredPostingImmutable ==
    [][/\ Len(jobs') >= Len(jobs)
       /\ SubSeq(jobs', 1, Len(jobs)) = jobs
       /\ (pc = "save_jobs" /\ HashStored(jobs, frame.scraped_jobs[frame.k]))
            => jobs' = jobs]_vars

\* ===================================================== the identity hash
\* Text is a sequence of characters over a three-letter alphabet: a letter in
\* both cases and the blank.
MaxText == 2
HashLen == 16

Chars == {"a", "A", " "}
Texts == SeqsUpTo(Chars, MaxText)

\* str.lower() of one character
LowerChar(c) == IF c = "A" THEN "a" ELSE c

\* " ".join(text.lower().split()): lower case, no blank at either end, one
\* blank between words
RECURSIVE Normalize(_)
Normalize(t) ==
    IF t = <<>> THEN <<>>
    ELSE IF Head(t) = " " THEN Normalize(Tail(t))
    ELSE LET rest == Normalize(Tail(t))
         IN  IF Len(t) > 1 /\ t[2] = " " /\ rest # <<>>
             THEN <<LowerChar(Head(t)), " ">> \o rest
             ELSE <<LowerChar(Head(t))>> \o rest

\* Normalize without the lower-casing
RECURSIVE NormalizeKeepCase(_)
NormalizeKeepCase(t) ==
    IF t = <<>> THEN <<>>
    ELSE IF Head(t) = " " THEN NormalizeKeepCase(Tail(t))
    ELSE LET rest == NormalizeKeepCase(Tail(t))
         IN  IF Len(t) > 1 /\ t[2] = " " /\ rest # <<>>
             THEN <<Head(t), " ">> \o rest
             ELSE <<Head(t)>> \o rest

\* the text the hash is taken of, with the URL in it
HashInputWithUrl(c) ==
    IF c.job_external_id # <<>>
    THEN c.source \o c.job_external_id \o c.url
    ELSE NormalizeKeepCase(c.title) \o <<"|">> \o NormalizeKeepCase(c.company) \o <<"|">>
         \o NormalizeKeepCase(c.location) \o <<"|">> \o NormalizeKeepCase(c.source) \o c.url

\* the text the hash is taken of: source and external id, or the normalised
\* title, company, location and source joined by "|"
HashInput(c) ==
    IF c.job_external_id # <<>>
    THEN c.source \o c.job_external_id
    ELSE Normalize(c.title) \o <<"|">> \o Normalize(c.company) \o <<"|">>
         \o Normalize(c.location) \o <<"|">> \o Normalize(c.source)

\* hexdigest()[:16]: a token of HashLen characters; the digest of a text is
\* the text itself, filled up with "0"
Digest(t) == SubSeq(t \o [i \in 1..HashLen |-> "0"], 1, HashLen)

Job_generate_hash(c) == Digest(HashInput(c))

\* the candidates hashed: any title, a company in two spellings, two URLs,
\* no external id or one of two
HashCandidates ==
    [title : Texts, company : {<<"a">>, <<"A", " ">>}, location : {<<"a">>},
     source : {<<"a", "a">>}, url : {<<"1">>, <<"2">>},
     job_external_id : {<<>>, <<"1">>, <<"2">>}]

\* a state of the hasher: the two candidates in frame, their hashes in outcome
InitHash ==
    /\ stop_flag = FALSE /\ pause_flag = FALSE
    /\ sessions = <<>> /\ jobs = <<>> /\ companies = <<>>
    /\ current_session = NoSession /\ filters_ready = FALSE
    /\ scraper = "none" /\ listing = <<>> /\ loaded = 0
    /\ pc = "hash"
    /\ frame \in [a : HashCandidates, b : HashCandidates]
    /\ outcome = NoOutcome

HashBoth ==
    /\ pc = "hash"
    /\ outcome' = [a |-> Job_generate_hash(frame.a), b |-> Job_generate_hash(frame.b)]
    /\ pc' = "hashed"
    /\ UNCHANGED <<control_vars, db_vars, current_session, filters_ready, scraper,
                   site_vars, frame>>

NextHash == HashBoth

SpecHash == InitHash /\ [][NextHash]_vars

\* the words of a text, lower-cased
RECURSIVE Words(_)
Words(t) ==
    IF t = <<>> THEN <<>>
    ELSE IF Head(t) = " " THEN Words(Tail(t))
    ELSE LET n == CHOOSE k \in 1..Len(t) :
                    /\ \A i \in 1..k : t[i] # " "
                    /\ (k = Len(t) \/ t[k + 1] = " ")
         IN  <<[i \in 1..n |-> LowerChar(t[i])]>> \o Words(SubSeq(t, n + 1, Len(t)))

SameIdentityInputs(a, b) ==
    \/ /\ a.job_external_id # <<>> /\ b.job_external_id = a.job_external_id
       /\ a.source = b.source
    \/ /\ a.job_external_id = <<>> /\ b.job_external_id = <<>>
       /\ Words(a.title) = Words(b.title) /\ Words(a.company) = Words(b.company)
       /\ Words(a.location) = Words(b.location) /\ Words(a.source) = Words(b.source)

Strip(name) == IF name = " google " THEN "google" ELSE name

RawNames == {"google", "Google", " google ", "meta"}

\* the profile page of an organization
ProfileUrlOf(name) == IF Lower(Strip(name)) = "google" THEN "p1" ELSE "p2"

NoOverview == [size |-> NoneStr, industry |-> NoneStr]

Overviews ==
    {NoOverview, [size |-> "s1", industry |-> NoneStr], [size |-> "s2", industry |-> "i1"]}

\* ScrapedCompanyFromJobPosting after its validators
PostingCompanies ==
    {[company_name |-> Strip(n), profile_url |-> u, overview |-> o, reviews_summary |-> r] :
        n \in RawNames \ {"meta"}, u \in {NoneStr, "p1"}, o \in Overviews, r \in {NoneStr, "r1"}}
    \cup {[company_name |-> "meta", profile_url |-> NoneStr, overview |-> NoOverview,
           reviews_summary |-> "r1"]}

\* ScrapedCompanyFromProfile after its validators
ProfileCompanies ==
    {[company_name |-> Strip(n), profile_url |-> ProfileUrlOf(n), overview |-> o,
      evaluations |-> e] :
        n \in RawNames \ {"meta"}, o \in Overviews, e \in {NoneStr, "e1"}}
    \cup {[company_name |-> "meta", profile_url |-> "p2", overview |-> NoOverview,
           evaluations |-> "e1"]}

\* Company records as the two scrapers hand them to the repository
CompanyCandidates ==
    {to_company_model(c) : c \in PostingCompanies}
    \cup {to_company_model_profile(c) : c \in ProfileCompanies}

InitCompany ==
    /\ pc = "upsert"
    /\ companies = <<>>
    /\ frame = [name |-> NoneStr]
    /\ outcome = [id |-> 0, decision |-> NoneStr]
    /\ stop_flag = FALSE
    /\ pause_flag = FALSE
    /\ sessions = <<>>
    /\ jobs = <<>>
    /\ current_session = NoSession
    /\ filters_ready = FALSE
    /\ scraper = "none"
    /\ listing = <<>>
    /\ loaded = 0

\* company_repo.upsert(company)
Upsert ==
    /\ pc = "upsert"
    /\ \E c \in CompanyCandidates :
          LET r == CompanyRepository_upsert(companies, c)
          IN  /\ companies' = r.table
              /\ frame' = c
              /\ outcome' = [id |-> r.id, decision |-> r.decision]
    /\ UNCHANGED <<stop_flag, pause_flag, sessions, jobs, current_session, filters_ready,
                   scraper, listing, loaded, pc>>

NextCompany == Upsert

SpecCompany == InitCompany /\ [][NextCompany]_vars

OverviewKeys == {"size", "industry"}

\* C12: a company_profile record upserted onto a stored job_posting record of
\* the same name keeps the record's id, makes its provenance merged, copies
\* the incoming overview and evaluations where the profile has them, keeps
\* what the record had elsewhere, and takes the incoming profile reference
\* when the record had none.
C12_MergeUpgrade ==
    [][ (/\ CompanyIdByName(companies, frame'.name) # 0
         /\ companies[CompanyIdByName(companies, frame'.name)].page_source = "job_posting"
         /\ frame'.page_source = "company_profile")
        => LET id == CompanyIdByName(companies, frame'.name)
               old == companies[id]
               new == companies'[id]
           IN  /\ outcome'.id = id
               /\ Len(companies') = Len(companies)
               /\ \A i \in 1..Len(companies) : i # id => companies'[i] = companies[i]
               /\ new.name = old.name
               /\ new.page_source = "merged"
               /\ \A k \in OverviewKeys :
                     new.overview[k] = Prefer(frame'.overview[k], old.overview[k])
               /\ new.evaluations = Prefer(frame'.evaluations, old.evaluations)
               /\ new.reviews_summary = old.reviews_summary
               /\ new.profile_url = Prefer(old.profile_url, frame'.profile_url) ]_vars

\* a merged record that holds the reviews of the posting, the size and the
\* evaluations of the profile, and the profile reference it lacked before
C12_Witness ==
    /\ pc = "upsert"
    /\ outcome.decision = "merge"
    /\ companies[outcome.id].page_source = "merged"
    /\ companies[outcome.id].reviews_summary = "r1"
    /\ companies[outcome.id].evaluations = "e1"
    /\ companies[outcome.id].overview = [size |-> "s1", industry |-> NoneStr]
    /\ companies[outcome.id].profile_url = "p1"
    /\ frame.reviews_summary = NoneStr

CompanyFields == {"profile_url", "reviews_summary", "evaluations"}

\* C13: a job_posting record upserted onto a stored company_profile or merged
\* record leaves the provenance and every populated field as they were; a
\* field that changes was absent and takes the incoming value.
C13_PostingNeverOverwrites ==
    [][ (/\ CompanyIdByName(companies, frame'.name) # 0
         /\ companies[CompanyIdByName(companies, frame'.name)].page_source
               \in {"company_profile", "merged"}
         /\ frame'.page_source = "job_posting")
        => LET id == CompanyIdByName(companies, frame'.name)
               old == companies[id]
               new == companies'[id]
           IN  /\ outcome'.id = id
               /\ Len(companies') = Len(companies)
               /\ \A i \in 1..Len(companies) : i # id => companies'[i] = companies[i]
               /\ new.name = old.name
               /\ new.page_source = old.page_source
               /\ \A f \in CompanyFields :
                     /\ old[f] # NoneStr => new[f] = old[f]
                     /\ new[f] \in {old[f], frame'[f]}
               /\ \A k \in OverviewKeys :
                     /\ old.overview[k] # NoneStr => new.overview[k] = old.overview[k]
                     /\ new.overview[k] \in {old.overview[k], frame'.overview[k]} ]_vars

\* a profile record that took the reviews of a posting and kept its size
\* against the other size the posting carried
C13_Witness ==
    /\ pc = "upsert"
    /\ outcome.decision = "fill"
    /\ frame.page_source = "job_posting"
    /\ frame.overview.size = "s2"
    /\ frame.reviews_summary = "r1"
    /\ companies[outcome.id].page_source = "company_profile"
    /\ companies[outcome.id].overview.size = "s1"
    /\ companies[outcome.id].reviews_summary = "r1"

\* C14: an upsert whose record has the provenance of the stored record of
\* its name changes nothing in the store and returns the stored record's id.
C14_SameProvenanceIgnored ==
    [][ (/\ CompanyIdByName(companies, frame'.name) # 0
         /\ companies[CompanyIdByName(companies, frame'.name)].page_source
               = frame'.page_source)
        => /\ companies' = companies
           /\ outcome'.id = CompanyIdByName(companies, frame'.name) ]_vars

\* an ignored record that differs from the stored one of its provenance
C14_Witness ==
    /\ pc = "upsert"
    /\ outcome.decision = "ignore"
    /\ outcome.id \in 1..Len(companies)
    /\ frame.page_source = companies[outcome.id].page_source
    /\ frame.overview # companies[outcome.id].overview
    /\ frame.name # companies[outcome.id].name

\* C15: no two stored organizations have the same name up to letter case and
\* surrounding blanks, and every upsert returns the id of the stored record
\* of its name.
C15_OneOrganizationPerName ==
    pc = "upsert" =>
        /\ \A i, j \in 1..Len(companies) :
              Lower(Strip(companies[i].name)) = Lower(Strip(companies[j].name)) => i = j
        /\ outcome.id # 0 =>
              /\ outcome.id \in 1..Len(companies)
              /\ Lower(Strip(companies[outcome.id].name)) = Lower(Strip(frame.name))

\* "Google" upserted when "google" is stored, with one record afterwards
C15_Witness ==
    /\ pc = "upsert"
    /\ Len(companies) = 1
    /\ outcome.id = 1
    /\ outcome.decision # "insert"
    /\ frame.name = "Google"
    /\ companies[1].name = "google"

\* ------------------------------------------------- the persistence phase
\* C16: a step that inserts a posting is taken in save_jobs_to_db, after every
\* organization of the run has been through its upsert (stored or failed),
\* with every id of the organization map already in the store; no
\* organization is stored while the postings are saved, and no posting while
\* the organizations are.
C16_OrganizationsBeforePostings ==
    [][ /\ jobs' # jobs =>
             /\ pc = "save_jobs"
             /\ frame.companies_done = Len(frame.scraped_companies)
             /\ \A n \in CompanyNames : frame.company_map[n] \in 0..Len(companies)
             /\ companies' = companies
        /\ companies' # companies =>
             /\ pc = "save_companies"
             /\ frame.saved + frame.skipped + frame.failed = 0
             /\ jobs' = jobs ]_vars

\* a posting has been saved after two organizations went through their upsert
C16_Witness ==
    /\ pc = "save_jobs"
    /\ frame.saved = 1
    /\ frame.k = 2
    /\ frame.companies_done = 2
    /\ Len(companies) >= 1
    /\ Len(jobs) >= 1
    /\ frame.company_map[frame.scraped_jobs[1].company] \in 1..Len(companies)

\* the organization a stored posting is linked to (0 for none): the value of
\* the company_id column, which no INSERT fills
CompanyLinkOf(row) == IF "company_id" \in DOMAIN row THEN row.company_id ELSE 0

\* the stored postings linked to a session
JobsOfSession(tbl, sid) == {i \in 1..Len(tbl) : tbl[i].session_id = sid}

\* C17: a posting stored by a run carries the id of the run's session and the
\* id the organization map holds for its organization name, and when the run
\* completes the session the postings linked to the session are as many as
\* its jobs_saved.
C17_PostingLinkedToSessionAndOrganization ==
    [][ /\ jobs' # jobs =>
             LET row == jobs'[Len(jobs')]
             IN  /\ row.session_id = current_session.id
                 /\ frame.company_map[row.company] # 0 =>
                       CompanyLinkOf(row) = frame.company_map[row.company]
        /\ (pc \in {"save_jobs", "save_companies", "scrape"} /\ pc' = "idle"
            /\ current_session'.status = "completed") =>
             Cardinality(JobsOfSession(jobs', current_session'.id))
                = current_session'.jobs_saved ]_vars

\* ------------------------------------------------------ resumed extraction
\* search_jobs as a function of the result page and its arguments, run from
\* the start and from a resume offset over the same page.

MaxList == 3
MaxOffset == 4

\* what happens to the listing at a position once it is clicked
ItemKinds == {"valid", "rejected", "error"}

\* the start index with the offset taken as a count of items already seen
current_job_index_after(skip_until) == IF skip_until # 0 THEN skip_until + 1 ELSE 0

\* current_job_index before the loop
current_job_index(skip_until) == IF skip_until # 0 THEN skip_until ELSE 0

\* the while loop of search_jobs: visited are the positions whose listing
\* was clicked, scraped the validated items with their positions
RECURSIVE SearchJobsLoop(_, _, _, _, _, _, _)
SearchJobsLoop(page, n_loaded, env, idx, limit, elem_bound, acc) ==
    IF idx >= limit
    THEN acc
    ELSE IF idx = n_loaded /\ env.button
    THEN acc                                  \* load more, break
    ELSE IF idx >= n_loaded
    THEN \* NoSuchElementException or IndexError: the handler needs job_element
         IF elem_bound
         THEN SearchJobsLoop(page, n_loaded, env, idx + 1, limit, elem_bound, acc)
         ELSE acc
    ELSE LET seen == [acc EXCEPT !.visited = Append(@, idx)]
         IN  IF env.kinds[idx + 1] = "valid"
             THEN SearchJobsLoop(page, n_loaded, env, idx + 1, limit, TRUE,
                                 [seen EXCEPT !.scraped =
                                     Append(@, [pos |-> idx, item |-> page[idx + 1]])])
             ELSE SearchJobsLoop(page, n_loaded, env, idx + 1, limit, TRUE, seen)

\* GlassdoorScraper.search_jobs without a stop request
search_jobs(page, n_loaded, env, has_cap, max_jobs, skip_until) ==
    LET limit == IF has_cap THEN Min(env.jobs_found, max_jobs) ELSE env.jobs_found
        none == [visited |-> <<>>, scraped |-> <<>>]
    IN  IF limit = 0
        THEN none
        ELSE SearchJobsLoop(page, n_loaded, env, current_job_index(skip_until), limit,
                            FALSE, none)

InitResume ==
    /\ pc = "resume"
    /\ \E n \in 0..MaxList :
          /\ listing = SiteListing(n)
          /\ loaded \in 0..n
          /\ frame \in [jobs_found : 0..MaxOffset, button : BOOLEAN,
                        kinds : [1..n -> ItemKinds],
                        has_cap : BOOLEAN, max_jobs : 0..MaxOffset,
                        skip_until : 0..MaxOffset]
          /\ frame.has_cap \/ frame.max_jobs = 0
    /\ outcome = NoOutcome
    /\ stop_flag = FALSE
    /\ pause_flag = FALSE
    /\ sessions = <<>>
    /\ jobs = <<>>
    /\ companies = <<>>
    /\ current_session = NoSession
    /\ filters_ready = TRUE
    /\ scraper = "GlassdoorScraper"

\* the full run and the run resumed at skip_until, over the same page
RunBoth ==
    /\ pc = "resume"
    /\ pc' = "ran"
    /\ outcome' = [full |-> search_jobs(listing, loaded, frame, frame.has_cap,
                                        frame.max_jobs, 0),
                   resumed |-> search_jobs(listing, loaded, frame, frame.has_cap,
                                           frame.max_jobs, frame.skip_until)]
    /\ UNCHANGED <<stop_flag, pause_flag, sessions, jobs, companies, current_session,
                   filters_ready, scraper, listing, loaded, frame>>

NextResume == RunBoth

SpecResume == InitResume /\ [][NextResume]_vars

\* the entries of a run at position k and later
From(entries, k) == SelectSeq(entries, LAMBDA e : e.pos >= k)

PositionsFrom(positions, k) == SelectSeq(positions, LAMBDA q : q >= k)

SuspensionPoints == {"extract", "save_companies", "save_jobs"}

IsPrefix(a, b) == Len(a) <= Len(b) /\ SubSeq(b, 1, Len(a)) = a

\* C19: a run at a suspension point while paused and not stopped takes no
\* step: its position, its accumulated items and the stores stay as they
\* are; once stopped its next step observes the stop, ends the call and
\* stores nothing; not paused, a step that stays in the loop moves to the
\* next item and keeps what was accumulated.
C19_PausedRunWaits ==
    [][ /\ (pc \in SuspensionPoints /\ pause_flag /\ ~stop_flag) =>
             /\ pc' = pc
             /\ frame' = frame
             /\ outcome' = outcome
             /\ <<jobs', companies', sessions'>> = <<jobs, companies, sessions>>
        /\ (pc \in SuspensionPoints /\ stop_flag /\ <<pc', frame'>> # <<pc, frame>>) =>
             /\ pc' = "idle"
             /\ outcome'.stop_seen = (CASE pc = "extract" -> "extract"
                                        [] pc = "save_companies" -> "company"
                                        [] pc = "save_jobs" -> "job")
             /\ <<jobs', companies'>> = <<jobs, companies>>
        /\ (pc \in SuspensionPoints /\ ~stop_flag /\ pc' = pc /\ frame' # frame) =>
             /\ IsPrefix(frame.scraped_jobs, frame'.scraped_jobs)
             /\ IF pc = "extract"
                THEN frame'.idx = frame.idx + 1
                ELSE frame'.k = frame.k + 1 /\ frame'.scraped_jobs = frame.scraped_jobs
      ]_vars

\* a paused run waiting in the extraction loop with one item accumulated
C19_Witness ==
    /\ pc = "extract"
    /\ pause_flag
    /\ ~stop_flag
    /\ Len(frame.scraped_jobs) = 1
    /\ frame.idx = 1

\* ------------------------------------------------------ rejected candidates
\* the counters of a run in which a skipped candidate could be counted
SkipCounters(f, s) ==
    f.skipped + f.failed + f.stats.jobs_skipped + s.jobs_skipped

\* C20: when the loaded listing at the current position is clicked and left
\* out of the result (extract_and_validate_job returned None), the run goes
\* on with the next position, the session stays in progress, nothing is
\* stored, and a skip counter of the run grows.
C20_RejectionSkippedAndCounted ==
    [][ (/\ pc = "extract" /\ pc' = "extract"
         /\ frame.idx < loaded
         /\ frame'.idx = frame.idx + 1
         /\ frame'.scraped_jobs = frame.scraped_jobs)
        => /\ <<jobs', sessions'>> = <<jobs, sessions>>
           /\ current_session'.status = current_session.status
           /\ SkipCounters(frame', current_session') > SkipCounters(frame, current_session)
      ]_vars

\* ------------------------------------------------- infrastructure failures
\* a step of save_jobs_to_db in which JobRepository.insert raised
InsertRaised == pc = "save_jobs" /\ frame'.failed = frame.failed + 1

\* a step of save_companies_to_db that left the organization out of the map
UpsertFailed ==
    /\ pc = "save_companies"
    /\ frame'.companies_done = frame.companies_done + 1
    /\ frame'.company_map[frame.scraped_companies[frame.k].company_name] = 0

\* C21: a save in which the database raised an error other than a duplicate
\* ends the call with the session failed.
C21_SaveErrorFailsSession ==
    [][ (InsertRaised \/ UpsertFailed)
        => /\ pc' = "idle"
           /\ current_session'.status = "failed" ]_vars

\* ------------------------------------------------ concurrent control calls
\* Threads that each call one mutator of the shared ScraperControl; a call
\* is the acquisition of _lock, the flag operations of its body one by one,
\* and the release.

Threads == {"t1", "t2", "t3"}

Mutators == {"stop", "pause", "resume", "reset"}

\* a lock that every caller may take at any time
LockIgnored(holder) == TRUE

\* threading.Lock: free when nobody holds it
LockFree(holder) == holder = NoneStr

\* the flags after the calls of a sequence, one after the other
RECURSIVE ApplyCalls(_, _)
ApplyCalls(calls, flags) ==
    IF calls = <<>>
    THEN flags
    ELSE LET op == Head(calls)
             next == CASE op = "stop" -> [flags EXCEPT !.stop = TRUE]
                       [] op = "pause" -> [flags EXCEPT !.pause = TRUE]
                       [] op = "resume" -> [flags EXCEPT !.pause = FALSE]
                       [] op = "reset" -> [stop |-> FALSE, pause |-> FALSE]
         IN  ApplyCalls(Tail(calls), next)

InitControl ==
    /\ pc = "control"
    /\ stop_flag \in BOOLEAN
    /\ pause_flag \in BOOLEAN
    /\ frame \in [Threads -> [op : Mutators, at : {"call"}]]
    /\ outcome = [lock |-> NoneStr, order |-> <<>>,
                  start |-> [stop |-> stop_flag, pause |-> pause_flag]]
    /\ sessions = <<>>
    /\ jobs = <<>>
    /\ companies = <<>>
    /\ current_session = NoSession
    /\ filters_ready = FALSE
    /\ scraper = "none"
    /\ listing = <<>>
    /\ loaded = 0

ControlFrame == <<sessions, jobs, companies, current_session, filters_ready, scraper,
                  listing, loaded, pc>>

\* with self._lock: entry
Acquire(t) ==
    /\ pc = "control"
    /\ frame[t].at = "call"
    /\ LockFree(outcome.lock)
    /\ frame' = [frame EXCEPT ![t].at = "held"]
    /\ outcome' = [outcome EXCEPT !.lock = t, !.order = Append(@, frame[t].op)]
    /\ UNCHANGED <<stop_flag, pause_flag, ControlFrame>>

\* the first statement of the body: Event.set() or Event.clear()
FlagStep(t) ==
    /\ pc = "control"
    /\ frame[t].at = "held"
    /\ stop_flag' = (CASE frame[t].op = "stop" -> TRUE
                       [] frame[t].op = "reset" -> FALSE
                       [] OTHER -> stop_flag)
    /\ pause_flag' = (CASE frame[t].op = "pause" -> TRUE
                        [] frame[t].op = "resume" -> FALSE
                        [] OTHER -> pause_flag)
    /\ frame' = [frame EXCEPT ![t].at = IF frame[t].op = "reset" THEN "half" ELSE "exit"]
    /\ UNCHANGED <<outcome, ControlFrame>>

\* the second statement of reset: self._pause_flag.clear()
ResetSecond(t) ==
    /\ pc = "control"
    /\ frame[t].at = "half"
    /\ pause_flag' = FALSE
    /\ frame' = [frame EXCEPT ![t].at = "exit"]
    /\ UNCHANGED <<stop_flag, outcome, ControlFrame>>

\* with self._lock: exit
Release(t) ==
    /\ pc = "control"
    /\ frame[t].at = "exit"
    /\ frame' = [frame EXCEPT ![t].at = "done"]
    /\ outcome' = [outcome EXCEPT !.lock = NoneStr]
    /\ UNCHANGED <<stop_flag, pause_flag, ControlFrame>>

NextControl ==
    \E t \in Threads : Acquire(t) \/ FlagStep(t) \/ ResetSecond(t) \/ Release(t)

SpecControl == InitControl /\ [][NextControl]_vars

\* the threads inside a with-block
Inside == {t \in Threads : frame[t].at \in {"held", "half", "exit"}}

\* C22: at most one thread is inside a mutator at a time, so the two clears
\* of reset are never interleaved with another mutator, and whenever no
\* thread is inside the flags are those of the calls made so far applied one
\* after the other in the order they took the lock.
C22_MutatorsAtomic ==
    pc = "control" =>
        /\ Cardinality(Inside) <= 1
        /\ Inside = {} =>
              [stop |-> stop_flag, pause |-> pause_flag]
                 = ApplyCalls(outcome.order, outcome.start)

\* three calls done, the reset between a pause that it undid and a stop
C22_Witness ==
    /\ pc = "control"
    /\ \A t \in Threads : frame[t].at = "done"
    /\ outcome.order = <<"pause", "reset", "stop">>
    /\ outcome.start.stop
    /\ stop_flag
    /\ ~pause_flag

\* ------------------------------------------------------------ refinement
\* C23: when complete_search applies refinement parameters and goes on to the
\* extraction, the count of the statistics and the stored jobs_found of the
\* session are the count reported after the filters, and the stored search
\* criteria of the session hold the refinement parameters.
C23_RefinementRefreshesSession ==
    [][ (/\ pc \in {"idle", "phase2"} /\ pc' = "scrape"
         /\ ~current_session.refined /\ current_session'.refined)
        => LET row == sessions'[current_session'.id]
           IN  /\ frame'.stats.jobs_found = current_session'.jobs_found
               /\ row.jobs_found = current_session'.jobs_found
               /\ current_session'.jobs_found = Len(listing')
               /\ row.refined ]_vars

\* ---------------------------------------------------- JobRepository.insert
\* JobRepository.insert called directly, with what the database answers to
\* its INSERT: postings of the catalogue, with no session or with the id of
\* a session that may or may not be stored.

MaxSessionRef == 2

\* the sqlite3 exception classes of the errors
IntegrityErrors == {"unique", "foreign_key"}

\* what the database answers: the unique url is checked when the row is
\* written, the foreign key of session_id (PRAGMA foreign_keys = ON) at the
\* end of the statement; fault is an error that does not depend on the row
SqliteError(tbl, sess, job, fault) ==
    IF fault THEN "operational"
    ELSE IF UrlStored(tbl, job.url) THEN "unique"
    ELSE IF job.session_id # 0 /\ job.session_id \notin 1..Len(sess) THEN "foreign_key"
    ELSE "none"

\* JobRepository.insert: the id, None (0) for an IntegrityError, and the
\* exception raised again for every other error
JobRepository_insert_call(tbl, sess, job, fault) ==
    LET e == SqliteError(tbl, sess, job, fault)
    IN  IF e = "none"
        THEN [id |-> JobRepository_insert(tbl, job).id,
              table |-> JobRepository_insert(tbl, job).table, raised |-> FALSE]
        ELSE [id |-> 0, table |-> tbl, raised |-> e \notin IntegrityErrors]

InitInsert ==
    /\ pc = "insert"
    /\ jobs = <<>>
    /\ sessions \in {<<>>, <<SessionRow(NewSession)>>}
    /\ frame = [url |-> NoneStr]
    /\ outcome = [id |-> 0, raised |-> FALSE]
    /\ stop_flag = FALSE
    /\ pause_flag = FALSE
    /\ companies = <<>>
    /\ current_session = NoSession
    /\ filters_ready = FALSE
    /\ scraper = "none"
    /\ listing = <<>>
    /\ loaded = 0

\* JobRepository.insert(job)
InsertJob ==
    /\ pc = "insert"
    /\ \E j \in Catalogue, sid \in 0..MaxSessionRef, fault \in BOOLEAN :
          LET job == to_job_model(j, sid, 0)
              r == JobRepository_insert_call(jobs, sessions, job, fault)
          IN  /\ jobs' = r.table
              /\ frame' = job
              /\ outcome' = [id |-> r.id, raised |-> r.raised]
    /\ UNCHANGED <<stop_flag, pause_flag, sessions, companies, current_session,
                   filters_ready, scraper, listing, loaded, pc>>

NextInsert == InsertJob

SpecInsert == InitInsert /\ [][NextInsert]_vars

\* C24: an insert returns None exactly when a posting with the url of the
\* job was stored before the call; an id it returns is that of the row it
\* added, and a call that neither stores nor finds the url stored raises.
C24_NoneOnlyForDuplicate ==
    [][ /\ (~outcome'.raised /\ outcome'.id = 0) <=> UrlStored(jobs, frame'.url)
        /\ outcome'.id # 0 =>
              /\ ~outcome'.raised
              /\ jobs' = Append(jobs, JobRow(frame'))
              /\ outcome'.id = Len(jobs')
        /\ outcome'.id = 0 => jobs' = jobs ]_vars

\* ------------------------------------------------------ extraction order
\* the positions a..b-1 in order
Range(a, b) == IF a < b THEN [i \in 1..(b - a) |-> a + i - 1] ELSE <<>>

\* the bound of the loop for the arguments of a run
LoopLimit(env) == IF env.has_cap THEN Min(env.jobs_found, env.max_jobs) ELSE env.jobs_found

\* a result page that shows the discovered listings: some of them loaded, and
\* a load-more button as long as not all are
WholePage ==
    /\ frame.jobs_found = Len(listing)
    /\ loaded < Len(listing) => (frame.button /\ loaded >= 1)

\* C25: over a result page whose listings are the discovered ones, a run
\* without a stop request clicks every position from the resume offset up to
\* the cap (or the discovered count), each once and in increasing order,
\* whether the listing was loaded at the start or only after loading more.
C25_EveryDiscoveredItemInOrder ==
    (pc = "ran" /\ WholePage) =>
        outcome.resumed.visited = Range(frame.skip_until, LoopLimit(frame))

\* ------------------------------------------------------ concurrent writers
\* Two writers store one posting each into an empty jobs table, through
\* JobRepository.insert or through GlassdoorScraper.save_job, which asks
\* JobRepository.exists first. Every insert is a transaction of its own
\* connection: the INSERT takes the write lock of the database and checks the
\* unique url, the commit publishes the row and frees the lock.

Writers == {"w1", "w2"}

Entries == {"insert", "save_job"}

InitWriters ==
    /\ pc = "writers"
    /\ jobs = <<>>
    /\ frame \in [Writers -> [job : {to_job_model(j, 0, 0) : j \in Catalogue},
                              entry : Entries, at : {"call"}, id : {0},
                              raised : {FALSE}]]
    /\ outcome = [lock |-> NoneStr]
    /\ stop_flag = FALSE
    /\ pause_flag = FALSE
    /\ sessions = <<>>
    /\ companies = <<>>
    /\ current_session = NoSession
    /\ filters_ready = FALSE
    /\ scraper = "none"
    /\ listing = <<>>
    /\ loaded = 0

WritersFrame == <<stop_flag, pause_flag, sessions, companies, current_session,
                  filters_ready, scraper, listing, loaded, pc>>

\* the call is entered; save_job returns None when exists(url) finds the url
Enter(w) ==
    /\ pc = "writers"
    /\ frame[w].at = "call"
    /\ frame' = [frame EXCEPT ![w].at =
                    IF frame[w].entry = "save_job" /\ UrlStored(jobs, frame[w].job.url)
                    THEN "done" ELSE "ready"]
    /\ UNCHANGED <<jobs, outcome, WritersFrame>>

\* cursor.execute(INSERT ...): IntegrityError (None) for a committed row of
\* the same url, else the row is written under the write lock
Write(w) ==
    /\ pc = "writers"
    /\ frame[w].at = "ready"
    /\ outcome.lock = NoneStr
    /\ IF UrlStored(jobs, frame[w].job.url)
       THEN /\ frame' = [frame EXCEPT ![w].at = "done"]
            /\ UNCHANGED outcome
       ELSE /\ frame' = [frame EXCEPT ![w].at = "written"]
            /\ outcome' = [outcome EXCEPT !.lock = w]
    /\ UNCHANGED <<jobs, WritersFrame>>

\* the INSERT waits for the write lock of another connection until the busy
\* timeout: OperationalError, raised again by insert
Busy(w) ==
    /\ pc = "writers"
    /\ frame[w].at = "ready"
    /\ outcome.lock \notin {NoneStr, w}
    /\ frame' = [frame EXCEPT ![w].at = "done", ![w].raised = TRUE]
    /\ UNCHANGED <<jobs, outcome, WritersFrame>>

\* conn.commit() of get_db_cursor, and cursor.lastrowid
Commit(w) ==
    /\ pc = "writers"
    /\ frame[w].at = "written"
    /\ jobs' = Append(jobs, JobRow(frame[w].job))
    /\ frame' = [frame EXCEPT ![w].at = "done", ![w].id = Len(jobs) + 1]
    /\ outcome' = [outcome EXCEPT !.lock = NoneStr]
    /\ UNCHANGED WritersFrame

NextWriters == \E w \in Writers : Enter(w) \/ Write(w) \/ Busy(w) \/ Commit(w)

SpecWriters == InitWriters /\ [][NextWriters]_vars

\* C26: when two writers whose postings have the same identity are both done
\* and neither ran into the busy timeout, one of them has an id, the other
\* was told None, and one posting of that identity is stored.
C26_OneWriterWins ==
    (/\ pc = "writers"
     /\ \A w \in Writers : frame[w].at = "done" /\ ~frame[w].raised
     /\ generate_hash(frame["w1"].job) = generate_hash(frame["w2"].job))
    => /\ Cardinality({w \in Writers : frame[w].id # 0}) = 1
       /\ Cardinality({i \in 1..Len(jobs) :
                          generate_hash(jobs[i]) = generate_hash(frame["w1"].job)}) = 1

\* ------------------------------------------------ the loop of search_jobs
\* The extraction loop from its first iteration, with the control calls of
\* other threads at any moment: a session in progress whose result page has
\* up to MaxList listings, the thread of the loop always scheduled again.

InitLoop ==
    /\ pc = "extract"
    /\ scraper = "GlassdoorScraper"
    /\ filters_ready = TRUE
    /\ stop_flag = FALSE
    /\ pause_flag \in BOOLEAN
    /\ jobs = <<>>
    /\ companies = <<>>
    /\ outcome = NoOutcome
    /\ \E n \in 1..MaxList, jobs_found \in 1..MaxOffset, has_cap \in BOOLEAN,
          max_jobs \in 0..MaxOffset, skip_until \in 0..MaxOffset :
          LET s == [NewSession EXCEPT !.id = 1, !.jobs_found = jobs_found]
              limit == IF has_cap THEN Min(jobs_found, max_jobs) ELSE jobs_found
          IN  /\ has_cap \/ max_jobs = 0
              /\ skip_until < limit
              /\ listing = SiteListing(n)
              /\ loaded \in 0..n
              /\ current_session = s
              /\ sessions = <<SessionRow(s)>>
              /\ frame = [IdleFrame EXCEPT !.stats = [NoStats EXCEPT !.jobs_found = jobs_found,
                                                                     !.session_id = 1],
                                           !.has_cap = has_cap, !.max_jobs = max_jobs,
                                           !.skip_until = skip_until,
                                           !.limit = limit, !.idx = skip_until]

NextLoop == ExtractStep \/ pause \/ resume \/ stop

SpecLoop == InitLoop /\ [][NextLoop]_vars /\ SF_vars(ExtractStep)

BesideFlags == <<sessions, jobs, companies, current_session, filters_ready, scraper,
                 listing, loaded, pc, frame, outcome>>

\* the points of a run at which check_should_stop is called
StopChecks ==
    pc \in SuspensionPoints \/ (pc = "fill_form" /\ scraper = "GlassdoorScraper")

\* C28: the only step that clears the stop flag is reset(), which clears the
\* pause flag with it and touches nothing else; with the flag set, a run
\* that moves on from a point where it checks the control observes the stop,
\* whenever the run was started.
C28_StopSticky ==
    [][ /\ (stop_flag /\ ~stop_flag') => (~pause_flag' /\ UNCHANGED BesideFlags)
        /\ (stop_flag /\ StopChecks /\ <<pc', frame'>> # <<pc, frame>>) =>
              /\ stop_flag'
              /\ outcome'.stop_seen # "no" ]_vars

\* a run whose first check in the extraction loop met a stop request that was
\* never withdrawn
C28_Witness ==
    /\ stop_flag
    /\ outcome.stop_seen = "extract"
    /\ outcome.extracted = 0
    /\ current_session.id = 1

\* ------------------------------------------------------------ mark_failed
\* C29: a step that ends a call with the session failed leaves its four
\* counters, in memory and in the stored row, as they were, and changes the
\* status and the error message only; when the failure comes after
\* the extraction, the returned statistics hold the number of items scraped
\* while the session keeps the jobs_scraped it had, 0 in a first call.
C29_MarkFailedKeepsCounters ==
    [][ (/\ pc' = "idle"
         /\ current_session'.status = "failed"
         /\ current_session.id # 0)
        => /\ Counters(current_session') = Counters(current_session)
           /\ Counters(sessions'[current_session.id])
                 = Counters(sessions[current_session.id])
           /\ sessions'[current_session.id].status = "failed"
           /\ pc \in {"save_companies", "save_jobs"} =>
                 /\ outcome'.stats.jobs_scraped = Len(frame.scraped_jobs)
                 /\ sessions'[current_session.id].jobs_scraped
                       = current_session.jobs_scraped ]_vars

\* a first call that failed after scraping two items: the stored session
\* says 0, the statistics say 2
C29_Witness ==
    /\ pc = "idle"
    /\ Len(sessions) = 1
    /\ sessions[1].status = "failed"
    /\ sessions[1].jobs_scraped = 0
    /\ outcome.kind = "returned"
    /\ outcome.stats.jobs_scraped = 2
    /\ outcome.stop_seen = "job"

\* ------------------------------------------------ a failed organization
\* C30: an organization whose upsert fails is left out of the map and the
\* call goes on with the next organization or with the postings, the session
\* untouched; save_companies_to_db ends a call only on a stop request; and a
\* posting whose organization is not in the map is stored, with no
\* organization link.
C30_FailedOrganizationSkipped ==
    [][ /\ UpsertFailed =>
              /\ pc' \in {"save_companies", "save_jobs"}
              /\ <<current_session', sessions'>> = <<current_session, sessions>>
              /\ frame'.scraped_jobs = frame.scraped_jobs
              /\ frame'.scraped_companies = frame.scraped_companies
        /\ (pc = "save_companies" /\ pc' = "idle") =>
              /\ stop_flag
              /\ outcome'.stop_seen = "company"
        /\ (jobs' # jobs /\ frame.company_map[jobs'[Len(jobs')].company] = 0) =>
              CompanyLinkOf(jobs'[Len(jobs')]) = 0 ]_vars

\* a completed call that saved both postings although the upsert of the
\* first organization failed: only the second organization is stored
C30_Witness ==
    /\ pc = "idle"
    /\ current_session.status = "completed"
    /\ outcome.stats.jobs_saved = 2
    /\ Len(jobs) = 2
    /\ jobs[1].company = "google"
    /\ Len(companies) = 1
    /\ companies[1].name = "Google"
====
